---- MODULE Spec2Model ----
(***************************************************************************)
(* Model of tap_aws_s3.streams.S3CSVStream: the `schema` property and the  *)
(* `get_records` generator, run against an S3 bucket whose contents may    *)
(* change while the tap is running.                                        *)
(*                                                                         *)
(* Timestamps are day numbers 1..3; IsoStrings and StartDateStrings give   *)
(* their text renderings.  A CSV body is a sequence of lines, each line a  *)
(* sequence of cell strings; badAt is the line whose read raises           *)
(* UnicodeDecodeError (0: the body decodes cleanly).                       *)
(***************************************************************************)
EXTENDS Integers, Sequences, FiniteSets, TLC

\* ---------------------------------------------------------------- bounds
MaxObjects == 2
PageSize == 1
MaxSchemaCalls == 1
MaxStoreChanges == 1

\* ------------------------------------------------------- the bucket's data
\* Objects the bucket may hold, in S3 listing order (lexicographic by key).
Objects ==
  << [Key |-> [stem |-> "a", ext |-> "csv"], LastModified |-> 1,
      Body |-> [lines |-> << <<"id", "name">>, <<"1", "a">>, <<"2", "b">> >>,
                badAt |-> 0]],
     \* not a ZIP file
     [Key |-> [stem |-> "b", ext |-> "zip"], LastModified |-> 1,
      Body |-> [corrupt |-> TRUE, entries |-> << >>]],
     \* bytes that are not UTF-8 in its second data row
     [Key |-> [stem |-> "c", ext |-> "csv"], LastModified |-> 3,
      Body |-> [lines |-> << <<"id", "id">>, <<"8", "9">>, <<"10", "11">> >>,
                badAt |-> 3]],
     [Key |-> [stem |-> "d", ext |-> "txt"], LastModified |-> 3,
      Body |-> [lines |-> << <<"notes">> >>, badAt |-> 0]],
     [Key |-> [stem |-> "e", ext |-> "zip"], LastModified |-> 2,
      Body |-> [corrupt |-> FALSE,
                entries |-> <<
                  [name |-> [stem |-> "a", ext |-> "csv"],
                   lines |-> << <<"id", "name">>, <<"3", "c">> >>, badAt |-> 0],
                  [name |-> [stem |-> "readme", ext |-> "txt"],
                   lines |-> << <<"hello">>, <<"world">> >>, badAt |-> 0],
                  [name |-> [stem |-> "b", ext |-> "csv"],
                   lines |-> << <<"id", "name">>, <<"4", "d">> >>, badAt |-> 0] >>]],
     \* a repeated header name, a last_modified column, a blank line, a row
     \* longer than the header and a row shorter than it
     [Key |-> [stem |-> "f", ext |-> "csv"], LastModified |-> 2,
      Body |-> [lines |-> << <<"id", "email", "email", "last_modified">>,
                             <<"5", "e", "e2", "1999">>,
                             <<>>,
                             <<"6", "f", "f2", "1999", "extra">>,
                             <<"7">> >>,
                badAt |-> 0]],
     [Key |-> [stem |-> "g", ext |-> "zip"], LastModified |-> 2,
      Body |-> [corrupt |-> FALSE,
                entries |-> <<
                  [name |-> [stem |-> "notes", ext |-> "txt"],
                   lines |-> << <<"hello">>, <<"world">> >>, badAt |-> 0] >>]] >>

AllKeys == 1..Len(Objects)

\* datetime.isoformat() of each timestamp (UTC, timezone included).
IsoStrings ==
  << "2024-01-01T00:00:00+00:00", "2024-01-02T00:00:00+00:00",
     "2024-01-03T00:00:00+00:00" >>

\* The start_date strings a configuration may carry: timestamps 1 and 2.
StartDateStrings ==
  << "2024-01-01T00:00:00Z", "2024-01-02T00:00:00Z" >>

\* config.get("start_date"): <<>> when the key is missing, else <<string>>.
StartDateConfigs ==
  { <<>>, <<"">> } \cup { <<StartDateStrings[t]>> : t \in 1..Len(StartDateStrings) }

\* pandas renames the n-th repeat of a header name to "name.n".
Dotted ==
  [id |-> <<"id.1", "id.2">>, name |-> <<"name.1", "name.2">>,
   email |-> <<"email.1", "email.2">>,
   last_modified |-> <<"last_modified.1", "last_modified.2">>]

\* csv.DictReader files the surplus values of a long row under restkey=None.
RestKey == "<restkey None>"

\* ----------------------------------------------------------------- helpers
Range(s) == { s[i] : i \in DOMAIN s }

RECURSIVE SortedSeq(_, _)
\* The members of S that are >= from, in increasing order.
SortedSeq(S, from) ==
  IF from > Len(Objects) THEN << >>
  ELSE IF from \in S THEN <<from>> \o SortedSeq(S, from + 1)
  ELSE SortedSeq(S, from + 1)

Take(s, n) == SubSeq(s, 1, IF Len(s) < n THEN Len(s) ELSE n)

IsPrefix(s, t) == Len(s) <= Len(t) /\ SubSeq(t, 1, Len(s)) = s

\* key.endswith("." + ext)
EndsWith(key, ext) == key.ext = ext

\* list_objects_v2 for one page: the keys after the continuation token.
ListPage(bucket, tok) ==
  LET rest == SortedSeq(bucket, tok + 1)
  IN  [Contents |-> Take(rest, PageSize), IsTruncated |-> Len(rest) > PageSize]

\* paginator.paginate(...) drained against an unchanging bucket.
Listing(bucket) == SortedSeq(bucket, 1)

\* pendulum.parse(config start_date) if the string is non-empty, else None.
\* <<>> stands for None, <<t>> for the parsed timestamp.
ParseStartDate(cfg) ==
  IF cfg = << >> \/ cfg = <<"">> THEN << >>
  ELSE << CHOOSE t \in 1..Len(StartDateStrings) : StartDateStrings[t] = cfg[1] >>

\* "if start_date and last_modified <= start_date: continue"
Skip_strict(sd, last_modified) == sd # << >> /\ last_modified < sd[1]
Skip(sd, last_modified) == sd # << >> /\ last_modified <= sd[1]

\* last_modified.isoformat()
Isoformat(last_modified) == [kind |-> "text", val |-> <<IsoStrings[last_modified]>>]

\* ------------------------------------------------------- csv.DictReader
RECURSIVE ReaderNext(_, _)
\* next(reader) after n lines of f have been consumed: the header is taken
\* as fieldnames on the first call, blank rows are passed over.
ReaderNext(f, n) ==
  IF n >= Len(f.lines) THEN [status |-> "eof", line |-> n]
  ELSE IF f.badAt = n + 1 THEN [status |-> "error", line |-> n]
  ELSE IF n = 0 THEN ReaderNext(f, 1)
  ELSE IF f.lines[n + 1] = << >> THEN ReaderNext(f, n + 1)
  ELSE [status |-> "row", line |-> n + 1]

\* The position of the last occurrence of k in fieldnames.
LastIndex(fieldnames, k) ==
  CHOOSE i \in DOMAIN fieldnames :
    fieldnames[i] = k /\ \A j \in DOMAIN fieldnames : fieldnames[j] = k => j <= i

\* The dict DictReader builds for one row: dict(zip(fieldnames, row)), the
\* surplus under restkey, the missing columns set to restval (None).
DictRow(fieldnames, row) ==
  LET lf == Len(fieldnames)
      lr == Len(row)
      keys == Range(fieldnames) \cup (IF lf < lr THEN {RestKey} ELSE {})
  IN  [k \in keys |->
        IF k = RestKey
          THEN [kind |-> "list", val |-> SubSeq(row, lf + 1, lr)]
        ELSE IF LastIndex(fieldnames, k) <= lr
          THEN [kind |-> "str", val |-> <<row[LastIndex(fieldnames, k)]>>]
        ELSE [kind |-> "none", val |-> << >>]]

\* str(v) if v is not None else None
StrOrNone(v) ==
  IF v.kind = "none" THEN [kind |-> "null", val |-> << >>]
  ELSE IF v.kind = "list" THEN [kind |-> "text", val |-> <<"[">> \o v.val \o <<"]">>]
  ELSE [kind |-> "text", val |-> v.val]

\* The record _iterate_csv yields for one row.
clean_row_keep(row, last_modified) ==
  [k \in DOMAIN row \cup {"last_modified"} |->
     IF k \in DOMAIN row THEN StrOrNone(row[k]) ELSE Isoformat(last_modified)]
clean_row(row, last_modified) ==
  [k \in DOMAIN row \cup {"last_modified"} |->
     IF k = "last_modified" THEN Isoformat(last_modified) ELSE StrOrNone(row[k])]

\* ------------------------------------------------------------ pandas.read_csv
RECURSIVE FirstNonBlank(_, _)
\* The first non-blank line at or after position n (0: there is none).
FirstNonBlank(lines, n) ==
  IF n > Len(lines) THEN 0
  ELSE IF lines[n] # << >> THEN n
  ELSE FirstNonBlank(lines, n + 1)

\* The number of positions before k that hold the same name as position k.
Repeats(header, k) == Cardinality({ j \in 1..(k - 1) : header[j] = header[k] })

\* pandas' dedup of header names: the n-th repeat of "x" becomes "x.n".
MangleDupeCols(header) ==
  [k \in DOMAIN header |->
     IF Repeats(header, k) = 0 THEN header[k]
     ELSE Dotted[header[k]][Repeats(header, k)]]

RECURSIVE Dedupe(_)
\* The names of s, each kept at its first occurrence.
Dedupe(s) ==
  IF s = << >> THEN << >>
  ELSE LET front == Dedupe(SubSeq(s, 1, Len(s) - 1))
       IN  IF s[Len(s)] \in Range(front) THEN front ELSE Append(front, s[Len(s)])

\* pd.read_csv(file).columns: raises on undecodable bytes and on a file
\* with no header line.
ReadCsvColumns(f) ==
  IF f.badAt # 0 THEN [status |-> "raised", columns |-> << >>]
  ELSE IF FirstNonBlank(f.lines, 1) = 0 THEN [status |-> "raised", columns |-> << >>]
  ELSE [status |-> "ok", columns |-> MangleDupeCols(f.lines[FirstNonBlank(f.lines, 1)])]

\* The positions of the entries of a ZIP whose name ends in .csv.
CsvEntries(entries) == { e \in DOMAIN entries : EndsWith(entries[e].name, "csv") }

RECURSIVE ConcatColumns(_, _)
\* pd.concat(df_list).columns over the .csv entries from position e on:
\* the union of the frames' columns, in order of first appearance.
ConcatColumns(entries, e) ==
  IF e > Len(entries) THEN << >>
  ELSE IF e \notin CsvEntries(entries) THEN ConcatColumns(entries, e + 1)
  ELSE Dedupe(ReadCsvColumns(entries[e]).columns \o ConcatColumns(entries, e + 1))

\* _download_csv_to_df(s3_key).columns
download_csv_to_df(i) ==
  LET obj == Objects[i] IN
  IF EndsWith(obj.Key, "zip") THEN
    IF obj.Body.corrupt \/ CsvEntries(obj.Body.entries) = {}
       \/ \E e \in CsvEntries(obj.Body.entries) :
             ReadCsvColumns(obj.Body.entries[e]).status = "raised"
      THEN [status |-> "raised", columns |-> << >>]
    ELSE [status |-> "ok", columns |-> ConcatColumns(obj.Body.entries, 1)]
  ELSE ReadCsvColumns(obj.Body)

RECURSIVE FirstWithExt(_, _)
\* The first key of a listing whose extension is in exts (0: none).
FirstWithExt(listing, exts) ==
  IF listing = << >> THEN 0
  ELSE IF Objects[Head(listing)].Key.ext \in exts THEN Head(listing)
  ELSE FirstWithExt(Tail(listing), exts)

\* _get_sample_csv_key(): the first listed key ending in .csv, else None (0).
get_sample_csv_key_any(listing) == FirstWithExt(listing, {"csv", "zip", "txt"})
get_sample_csv_key(listing) == FirstWithExt(listing, {"csv"})

\* The `schema` property's result for a listing: the outcome, the sample
\* key, the property names in order, the keys whose body was fetched.
SchemaOf(listing) ==
  LET sample_file == get_sample_csv_key(listing) IN
  IF sample_file = 0
    THEN [state |-> "fallback", sample |-> 0, columns |-> <<"last_modified">>,
          fetched |-> {}, warned |-> TRUE]
  ELSE LET df == download_csv_to_df(sample_file) IN
    IF df.status = "raised"
      THEN [state |-> "raised", sample |-> sample_file, columns |-> << >>,
            fetched |-> {sample_file}, warned |-> FALSE]
    ELSE [state |-> "ok", sample |-> sample_file,
          columns |-> Dedupe(df.columns \o <<"last_modified">>),
          fetched |-> {sample_file}, warned |-> FALSE]

\* ------------------------------------------------------------------ state
VARIABLES
  store,          \* keys now in the bucket under the prefix
  storeChanges,   \* writes other clients have made to the bucket
  config,         \* config.get("start_date")
  listings,       \* paginate() runs begun against the store
  schemaCalls,    \* accesses to the schema property
  schemaState,    \* outcome of the last access: unset, ok, fallback, raised
  schemaCols,     \* property names of the last schema, in order
  sample,         \* sample key of the last access (0: none)
  schemaCatalog,  \* the listing the last access had before it
  schemaFetched,  \* keys whose body the last access fetched
  warned,         \* the fallback warning has been logged
  pc,             \* position of the get_records generator
  token,          \* last key of the pages received so far
  truncated,      \* the last page received said more pages follow
  page,           \* objects of the current page not yet visited
  listed,         \* objects the pages have delivered, in order
  cur,            \* object whose rows are being read (0: none)
  entry,          \* ZIP entry being read (0: the object body itself)
  line,           \* lines the csv reader has consumed
  out,            \* records yielded so far, each with its origin
  fetched,        \* keys get_records has issued get_object for, in order
  open,           \* body and entry streams opened and not yet released
  failure         \* the exception that left get_records ("none": no exception)

storeVars == <<store, storeChanges, config>>
schemaVars == <<schemaCalls, schemaState, schemaCols, sample, schemaCatalog,
                schemaFetched, warned>>
genVars == <<pc, token, truncated, page, listed, cur, entry, line, out, fetched, open,
             failure>>
vars == <<store, storeChanges, config, listings, schemaCalls, schemaState,
          schemaCols, sample, schemaCatalog, schemaFetched, warned, pc, token,
          truncated, page, listed, cur, entry, line, out, fetched, open, failure>>

\* self.start_date as get_records parses it
start_date == ParseStartDate(config)

BodyStream(i) == [obj |-> i, entry |-> 0]
EntryStream(i, e) == [obj |-> i, entry |-> e]

\* The tabular file the reader is on.
CurFile == IF entry = 0 THEN Objects[cur].Body ELSE Objects[cur].Body.entries[entry]

\* The same scan without the suffix test.
NextCsvEntry_nofilter(entries, e) == IF e > Len(entries) THEN 0 ELSE e

RECURSIVE NextCsvEntry(_, _)
\* "for file_name in z.namelist(): if not file_name.endswith('.csv'): continue"
\* from position e on (0: the archive has no further .csv entry).
NextCsvEntry(entries, e) ==
  IF e > Len(entries) THEN 0
  ELSE IF EndsWith(entries[e].name, "csv") THEN e
  ELSE NextCsvEntry(entries, e + 1)

\* The get_object calls made once the next listed key has passed the filter.
Downloads_eager(log, key, skip) == Append(log, key)
Downloads(log, key, skip) == IF skip THEN log ELSE Append(log, key)

Init ==
  /\ store \in { S \in SUBSET AllKeys : Cardinality(S) <= MaxObjects }
  /\ storeChanges = 0
  /\ config \in StartDateConfigs
  /\ listings = 0
  /\ schemaCalls = 0
  /\ schemaState = "unset"
  /\ schemaCols = << >>
  /\ sample = 0
  /\ schemaCatalog = << >>
  /\ schemaFetched = {}
  /\ warned = FALSE
  /\ pc = "not_started"
  /\ token = 0
  /\ truncated = FALSE
  /\ page = << >>
  /\ listed = << >>
  /\ cur = 0
  /\ entry = 0
  /\ line = 0
  /\ out = << >>
  /\ fetched = << >>
  /\ open = {}
  /\ failure = "none"

\* Another client of the bucket adds or removes an object while the tap runs.
StoreChange ==
  /\ storeChanges < MaxStoreChanges
  /\ pc \notin {"done", "failed", "closed"}
  /\ \E i \in AllKeys :
       store' = IF i \in store THEN store \ {i} ELSE store \cup {i}
  /\ Cardinality(store') <= MaxObjects
  /\ storeChanges' = storeChanges + 1
  /\ UNCHANGED <<config, listings>>
  /\ UNCHANGED schemaVars
  /\ UNCHANGED genVars

\* One access to the schema property: list, pick the sample, read its header.
schema ==
  /\ schemaCalls < MaxSchemaCalls
  \* the caller runs only while the generator is not running
  /\ pc \in {"not_started", "yielded", "done"}
  /\ LET r == SchemaOf(Listing(store)) IN
       /\ schemaState' = r.state
       /\ schemaCols' = r.columns
       /\ sample' = r.sample
       /\ schemaFetched' = r.fetched
       /\ warned' = (warned \/ r.warned)
  /\ schemaCatalog' = Listing(store)
  /\ schemaCalls' = schemaCalls + 1
  /\ listings' = listings + 1
  /\ UNCHANGED storeVars
  /\ UNCHANGED genVars

\* get_records asks the paginator for the next page of the listing.
Paginate ==
  /\ pc \in {"not_started", "paginate"}
  /\ LET resp == ListPage(store, token) IN
       /\ page' = resp.Contents
       /\ truncated' = resp.IsTruncated
       /\ listed' = listed \o resp.Contents
       /\ token' = IF resp.Contents = << >> THEN token
                   ELSE resp.Contents[Len(resp.Contents)]
  /\ listings' = IF pc = "not_started" THEN listings + 1 ELSE listings
  /\ pc' = "objects"
  /\ UNCHANGED storeVars
  /\ UNCHANGED schemaVars
  /\ UNCHANGED <<cur, entry, line, out, fetched, open, failure>>

\* The body of "for obj in page.get('Contents', [])" up to the first row read:
\* filter, get_object, and the opening of the CSV body or of the archive.
NextObject ==
  /\ pc = "objects"
  /\ IF page = << >>
       THEN /\ pc' = IF truncated THEN "paginate" ELSE "done"
            /\ UNCHANGED <<page, cur, entry, line, fetched, open, failure>>
       ELSE LET i == Head(page)
                obj == Objects[i]
                skip == Skip(start_date, obj.LastModified)
            IN
            /\ page' = Tail(page)
            /\ fetched' = Downloads(fetched, i, skip)
            /\ failure' = IF skip THEN failure
                           ELSE IF i \notin store THEN "NoSuchKey"
                           ELSE IF EndsWith(obj.Key, "zip") /\ obj.Body.corrupt
                             THEN "BadZipFile"
                           ELSE failure
            /\ IF skip
                 THEN UNCHANGED <<pc, cur, entry, line, open>>
               ELSE IF i \notin store
                 \* get_object raises NoSuchKey: the key was deleted after the listing
                 THEN pc' = "failed" /\ UNCHANGED <<cur, entry, line, open>>
               ELSE IF EndsWith(obj.Key, "zip")
                 THEN IF obj.Body.corrupt
                        \* zipfile.ZipFile raises BadZipFile; the body was read to its end
                        THEN pc' = "failed" /\ UNCHANGED <<cur, entry, line, open>>
                      ELSE IF NextCsvEntry(obj.Body.entries, 1) = 0
                        THEN UNCHANGED <<pc, cur, entry, line, open>>
                      ELSE /\ pc' = "rows"
                           /\ cur' = i
                           /\ entry' = NextCsvEntry(obj.Body.entries, 1)
                           /\ line' = 0
                           /\ open' = open \cup {EntryStream(i, entry')}
               ELSE IF EndsWith(obj.Key, "csv")
                 THEN /\ pc' = "rows"
                      /\ cur' = i
                      /\ entry' = 0
                      /\ line' = 0
                      /\ open' = open \cup {BodyStream(i)}
               \* neither suffix: the body was fetched and is never read
               ELSE /\ open' = open \cup {BodyStream(i)}
                    /\ UNCHANGED <<pc, cur, entry, line>>
  /\ UNCHANGED <<token, truncated, listed, out, listings>>
  /\ UNCHANGED storeVars
  /\ UNCHANGED schemaVars

\* One step of "for row in reader" in _iterate_csv: yield the next row, or
\* leave the file at its end, or raise on undecodable bytes.
iterate_csv ==
  /\ pc \in {"rows", "yielded"}
  /\ LET f == CurFile
         r == ReaderNext(f, line)
         entries == Objects[cur].Body.entries
     IN
     IF r.status = "row"
       THEN /\ out' = Append(out, [src |-> cur, entry |-> entry, line |-> r.line,
                                   fields |-> clean_row(DictRow(f.lines[1], f.lines[r.line]),
                                                       Objects[cur].LastModified)])
            /\ line' = r.line
            /\ pc' = "yielded"
            /\ UNCHANGED <<cur, entry, open, failure>>
     ELSE IF r.status = "error"
       \* the exception leaves get_records; the with-blocks of _process_zip
       \* close the entry, nothing closes a CSV body
       THEN /\ pc' = "failed"
            /\ failure' = "UnicodeDecodeError"
            /\ open' = IF entry = 0 THEN open ELSE open \ {EntryStream(cur, entry)}
            /\ UNCHANGED <<cur, entry, line, out>>
     ELSE IF entry = 0
       \* the CSV body was read to its end, which hands the connection back
       THEN /\ pc' = "objects"
            /\ open' = open \ {BodyStream(cur)}
            /\ cur' = 0
            /\ line' = 0
            /\ UNCHANGED <<entry, out, failure>>
     ELSE IF NextCsvEntry(entries, entry + 1) = 0
       THEN /\ pc' = "objects"
            /\ open' = open \ {EntryStream(cur, entry)}
            /\ cur' = 0
            /\ entry' = 0
            /\ line' = 0
            /\ UNCHANGED <<out, failure>>
     ELSE /\ entry' = NextCsvEntry(entries, entry + 1)
          /\ open' = (open \ {EntryStream(cur, entry)}) \cup {EntryStream(cur, entry')}
          /\ line' = 0
          /\ pc' = "rows"
          /\ UNCHANGED <<cur, out, failure>>
  /\ UNCHANGED <<token, truncated, page, listed, fetched, listings>>
  /\ UNCHANGED storeVars
  /\ UNCHANGED schemaVars

\* The consumer stops pulling and closes the generator, which is suspended at
\* the yield of _iterate_csv: GeneratorExit unwinds the with-blocks of
\* _process_zip; _process_csv holds the body in no with-block.
Close ==
  /\ pc = "yielded"
  /\ pc' = "closed"
  /\ open' = IF entry = 0 THEN open ELSE open \ {EntryStream(cur, entry)}
  /\ UNCHANGED <<token, truncated, page, listed, cur, entry, line, out, fetched,
                 listings, failure>>
  /\ UNCHANGED storeVars
  /\ UNCHANGED schemaVars

\* The garbage collector finalizes a body stream that nothing refers to any
\* more, which closes it.
Finalize ==
  /\ \E st \in open :
       /\ st.entry = 0
       /\ ~(pc \in {"rows", "yielded"} /\ cur = st.obj /\ entry = 0)
       /\ open' = open \ {st}
  /\ UNCHANGED <<pc, token, truncated, page, listed, cur, entry, line, out, fetched,
                 listings, failure>>
  /\ UNCHANGED storeVars
  /\ UNCHANGED schemaVars

Next ==
  \/ StoreChange
  \/ schema
  \/ Paginate
  \/ NextObject
  \/ iterate_csv
  \/ Close
  \/ Finalize

Spec == Init /\ [][Next]_vars

\* ------------------------------------------------------------- properties
\* Objects get_records has taken from its pages so far.
Visited == SubSeq(listed, 1, Len(listed) - Len(page))

\* The watermark the configuration states, as a set: empty when absent.
Watermark == { t \in 1..Len(StartDateStrings) : config = <<StartDateStrings[t]>> }

\* Data lines of a tabular file, in file order: all lines after the header
\* that are not blank.
DataLines(f) ==
  LET idx == [n \in 1..Len(f.lines) |-> n]
      IsData(n) == n > 1 /\ f.lines[n] # << >>
  IN  SelectSeq(idx, IsData)

\* The records of one tabular file, one per data line.
FileRecords(i, e, f) ==
  [k \in 1..Len(DataLines(f)) |->
     [src |-> i, entry |-> e, line |-> DataLines(f)[k],
      fields |-> clean_row(DictRow(f.lines[1], f.lines[DataLines(f)[k]]),
                          Objects[i].LastModified)]]

RECURSIVE ArchiveRecords(_, _)
\* The records of the .csv entries of archive i from entry e on.
ArchiveRecords(i, e) ==
  LET entries == Objects[i].Body.entries IN
  IF e > Len(entries) THEN << >>
  ELSE IF entries[e].name.ext = "csv"
    THEN FileRecords(i, e, entries[e]) \o ArchiveRecords(i, e + 1)
  ELSE ArchiveRecords(i, e + 1)

\* The records of one stored object.
ObjectRecords(i) ==
  IF Objects[i].Key.ext = "csv" THEN FileRecords(i, 0, Objects[i].Body)
  ELSE IF Objects[i].Key.ext = "zip" /\ ~Objects[i].Body.corrupt THEN ArchiveRecords(i, 1)
  ELSE << >>

RECURSIVE Expected(_)
\* The records of the eligible objects of a listing, concatenated in order.
Expected(lst) ==
  IF lst = << >> THEN << >>
  ELSE IF \E t \in Watermark : Objects[Head(lst)].LastModified <= t
    THEN Expected(Tail(lst))
  ELSE ObjectRecords(Head(lst)) \o Expected(Tail(lst))

\* C1: with a watermark present, no record comes from an object whose
\* last_modified is at or before it (equality excluded); with the watermark
\* absent, every object taken from the listing has been sent to get_object.
C1_CursorFilter ==
  /\ \A k \in DOMAIN out : \A t \in Watermark : Objects[out[k].src].LastModified > t
  /\ Watermark = {} => fetched = Visited

\* C1 witness: a finished run that visited an object modified exactly at the
\* watermark and emitted records of a later object.
C1_Witness ==
  /\ pc = "done"
  /\ out # << >>
  /\ \E t \in Watermark : \E k \in DOMAIN Visited : Objects[Visited[k]].LastModified = t

\* C2: the records yielded are always an initial part of the concatenation,
\* over the pages received in order, of the rows of each eligible object (a
\* .csv object's data rows; an archive's .csv entries in container order), and
\* are the whole of it when the generator is exhausted.
C2_ConcatenationInOrder ==
  /\ IsPrefix(out, Expected(listed))
  /\ pc = "done" => out = Expected(listed)

\* C2 witness: an exhausted run over more than one page that read the
\* archive with two .csv entries and yielded both entries' rows.
C2_Witness ==
  /\ pc = "done"
  /\ Len(listed) > PageSize
  /\ \E j, k \in DOMAIN out :
       /\ j < k
       /\ out[j].src = out[k].src
       /\ out[j].entry # 0
       /\ out[j].entry < out[k].entry

\* C3: every record carries last_modified, a text equal to the ISO-8601
\* rendering of the owning stored object's last_modified, also when the file
\* has a header column of that name.
C3_ReplicationField ==
  \A k \in DOMAIN out :
    /\ "last_modified" \in DOMAIN out[k].fields
    /\ out[k].fields["last_modified"] =
         [kind |-> "text", val |-> <<IsoStrings[Objects[out[k].src].LastModified]>>]

\* C3 witness: a record of a file whose header has a last_modified column,
\* and a record of an archive entry.
C3_Witness ==
  /\ \E k \in DOMAIN out :
       /\ out[k].entry = 0
       /\ "last_modified" \in Range(Objects[out[k].src].Body.lines[1])
  /\ \E k \in DOMAIN out : out[k].entry # 0

\* C4 (as claimed): malformed content of one object never ends the run; the
\* only exception that leaves get_records is a store error.
C4_ContentErrorConfined ==
  failure \notin {"BadZipFile", "UnicodeDecodeError"}

C6_ListingMemoized ==
  /\ listings <= 1
  /\ (schemaState # "unset" /\ pc = "done") => listed = schemaCatalog

\* An archive of the listing that opens and holds a .csv entry.
TabularArchives(listing) ==
  { i \in Range(listing) :
      /\ Objects[i].Key.ext = "zip"
      /\ ~Objects[i].Body.corrupt
      /\ \E e \in DOMAIN Objects[i].Body.entries : Objects[i].Body.entries[e].name.ext = "csv" }

\* The listing holds no .csv object.
NoCsvObject(listing) == \A i \in Range(listing) : Objects[i].Key.ext # "csv"

\* The first .csv entry of archive i.
FirstTabularEntry(i) ==
  LET entries == Objects[i].Body.entries
      e == CHOOSE x \in DOMAIN entries :
             /\ entries[x].name.ext = "csv"
             /\ \A y \in DOMAIN entries : entries[y].name.ext = "csv" => x <= y
  IN  entries[e]

\* C7 (as claimed): the sample is the first .csv object of the catalog; with
\* no .csv object but an archive holding a tabular entry, the schema is that
\* entry's header followed by last_modified; the minimal schema is returned
\* only when no tabular file exists anywhere.
C7_SampleSelection ==
  schemaState # "unset" =>
    /\ ~NoCsvObject(schemaCatalog) =>
         /\ sample \in Range(schemaCatalog)
         /\ Objects[sample].Key.ext = "csv"
         /\ \A i \in Range(schemaCatalog) : Objects[i].Key.ext = "csv" => sample <= i
    /\ (NoCsvObject(schemaCatalog) /\ TabularArchives(schemaCatalog) # {}) =>
         LET a == CHOOSE i \in TabularArchives(schemaCatalog) :
                    \A j \in TabularArchives(schemaCatalog) : i <= j
         IN  schemaCols = FirstTabularEntry(a).lines[1] \o <<"last_modified">>
    /\ schemaState = "fallback" =>
         NoCsvObject(schemaCatalog) /\ TabularArchives(schemaCatalog) = {}

\* C8: on a catalog with no tabular file (no .csv object, no archive with a
\* .csv entry) the schema access returns only last_modified, logs the warning,
\* raises nothing and fetches no body.
C8_FallbackSchema ==
  (schemaState # "unset" /\ NoCsvObject(schemaCatalog)
     /\ TabularArchives(schemaCatalog) = {}) =>
    /\ schemaState = "fallback"
    /\ schemaCols = <<"last_modified">>
    /\ warned
    /\ schemaFetched = {}

\* C8 witness: the fallback schema returned for a catalog that holds objects,
\* none of them tabular.
C8_Witness ==
  /\ schemaState = "fallback"
  /\ Len(schemaCatalog) >= 2
  /\ NoCsvObject(schemaCatalog)
  /\ TabularArchives(schemaCatalog) = {}
  /\ warned

\* C9: get_records issues get_object for no object whose last_modified is at
\* or before a present watermark.
C9_FetchAfterFilter ==
  \A k \in DOMAIN fetched : \A t \in Watermark : Objects[fetched[k]].LastModified > t

\* C9 witness: a run that passed over an ineligible object and fetched an
\* eligible one after it.
C9_Witness ==
  /\ fetched # << >>
  /\ \E t \in Watermark : \E k \in DOMAIN Visited :
       /\ Objects[Visited[k]].LastModified <= t
       /\ Visited[k] < fetched[Len(fetched)]

\* C10 (as claimed): once the consumer has closed the generator, no stream
\* of the object it was reading is open.
C10_StreamReleasedOnClose ==
  pc = "closed" => \A st \in open : st.obj # cur

====
